---- MODULE Spec2Model ----
(***************************************************************************)
(* A model of Collect_n_parse.pyw: the DMARC aggregate-report pipeline.    *)
(* One run locates .zip and .gz archives under a directory, extracts them  *)
(* into the same directory, parses every .xml file found there, flattens   *)
(* the reports into a CSV file, charts the top source IPs and finally      *)
(* deletes the .xml files.                                                 *)
(*                                                                         *)
(* Text is modelled in two ways.  File names are sequences of one-         *)
(* character strings, because the program inspects their suffixes.  XML    *)
(* text and CSV cells are atomic strings, because the program only copies  *)
(* them; the two places where pandas interprets a cell (as a number, as a  *)
(* sort key) are given by the tables Numeral and IpText.                   *)
(***************************************************************************)
EXTENDS Integers, Sequences, FiniteSets, TLC

VARIABLES
    pc,           \* position of the module-level script (lines 221-227)
    fs,           \* the directory tree under directory = output_dir
    zip_files,    \* zip_files still to extract (line 115)
    gz_files,     \* gz_files still to decompress (line 116)
    xml_files,    \* .xml paths the walk of line 134 has still to yield
    all_reports,  \* all_reports (line 133), then reports (line 222)
    chart,        \* what read_csv_and_display_chart did
    error,        \* the exception in flight, None when there is none
    cleanups,     \* number of completed calls of cleanup_extracted_files
    env           \* what the machine allows: disk writable, display present

vars == <<pc, fs, zip_files, gz_files, xml_files, all_reports, chart, error,
          cleanups, env>>

(***************************************************************************)
(* Bounds of the model.                                                    *)
(***************************************************************************)
MaxRecords == 2     \* record elements per generated XML document
MaxReports == 2     \* reports per generated report list
MaxRows == 2        \* rows of a generated single-report table
MaxIps == 22        \* distinct source IPs of a generated wide table
MaxStem == 4        \* characters before the final .gz of a generated name

(***************************************************************************)
(* Python values.                                                          *)
(***************************************************************************)
None == <<>>
Some(v) == <<v>>

\* The AttributeError raised by None.find(...) or None.text, as a value
\* that no optional text equals.
AttributeError == <<"AttributeError", "raised">>

Min(S) == CHOOSE m \in S : \A n \in S : m <= n

RECURSIVE SeqsUpTo(_, _)
SeqsUpTo(S, n) ==
    IF n = 0 THEN {<<>>}
    ELSE LET shorter == SeqsUpTo(S, n - 1)
         IN  shorter \cup {Append(s, e) : s \in {t \in shorter : Len(t) = n - 1}, e \in S}

(***************************************************************************)
(* str.endswith and str.replace on names spelt as character sequences.     *)
(***************************************************************************)
endswith(name, suffix) ==
    /\ Len(name) >= Len(suffix)
    /\ SubSeq(name, Len(name) - Len(suffix) + 1, Len(name)) = suffix

startswith(name, prefix) ==
    /\ Len(name) >= Len(prefix)
    /\ SubSeq(name, 1, Len(prefix)) = prefix

\* str.replace(old, ''): every non-overlapping occurrence of old, scanning
\* from the left, is removed.
RECURSIVE replace_with_empty(_, _)
replace_with_empty(name, old) ==
    IF name = <<>> THEN <<>>
    ELSE IF startswith(name, old)
         THEN replace_with_empty(SubSeq(name, Len(old) + 1, Len(name)), old)
         ELSE <<Head(name)>> \o replace_with_empty(Tail(name), old)

DotZip == <<".", "z", "i", "p">>
DotGz == <<".", "g", "z">>
DotXml == <<".", "x", "m", "l">>

(***************************************************************************)
(* xml.etree.ElementTree: an element has a tag, an optional text and its   *)
(* children in document order.                                             *)
(***************************************************************************)
Elem(tag, text, kids) == [tag |-> tag, text |-> text, kids |-> kids]
Leaf(tag, s) == Elem(tag, Some(s), <<>>)

\* Element.find(tag): the first child with that tag, or None.
find(element, tag) ==
    LET hits == {i \in DOMAIN element.kids : element.kids[i].tag = tag}
    IN  IF hits = {} THEN None ELSE Some(element.kids[Min(hits)])

\* Element.findall(tag): the children with that tag, in document order.
findall(element, tag) ==
    SelectSeq(element.kids, LAMBDA k : k.tag = tag)

\* get_text_or_none without its "element is not None" test: the call
\* element.find(...) on None raises.
get_text_or_none_unguarded(element, subelement) ==
    IF element = None THEN AttributeError
    ELSE LET found_element == find(element[1], subelement)
         IN  IF found_element # None THEN found_element[1].text ELSE None

get_text_or_none(element, subelement) ==
    IF element # None
    THEN LET found_element == find(element[1], subelement)
         IN  IF found_element # None THEN found_element[1].text ELSE None
    ELSE None

\* The dictionary built for one record element (lines 82-103).
parse_record(record) ==
    LET row_element == find(record, "row")
        identifiers_element == find(record, "identifiers")
        auth_results_element == find(record, "auth_results")
    IN  [source_ip |-> get_text_or_none(row_element, "source_ip"),
         count |-> get_text_or_none(row_element, "count"),
         policy_evaluated |->
            [disposition |->
                IF row_element # None
                THEN get_text_or_none(find(row_element[1], "policy_evaluated"), "disposition")
                ELSE None,
             dkim |->
                IF row_element # None
                THEN get_text_or_none(find(row_element[1], "policy_evaluated"), "dkim")
                ELSE None,
             spf |->
                IF row_element # None
                THEN get_text_or_none(find(row_element[1], "policy_evaluated"), "spf")
                ELSE None],
         identifiers |->
            [header_from |-> get_text_or_none(identifiers_element, "header_from")],
         auth_results |->
            [dkim |->
                IF auth_results_element # None
                THEN get_text_or_none(find(auth_results_element[1], "dkim"), "domain")
                ELSE None,
             spf |->
                IF auth_results_element # None
                THEN get_text_or_none(find(auth_results_element[1], "spf"), "domain")
                ELSE None]]

\* parsed_data (lines 57-105) for the root element of a parsed tree.
parsed_data_of(root) ==
    LET report_metadata == find(root, "report_metadata")
        policy_published == find(root, "policy_published")
        records == findall(root, "record")
    IN  [report_metadata |->
            [org_name |-> get_text_or_none(report_metadata, "org_name"),
             email |-> get_text_or_none(report_metadata, "email"),
             report_id |-> get_text_or_none(report_metadata, "report_id"),
             date_range |->
                [begin |->
                    IF report_metadata # None
                    THEN get_text_or_none(find(report_metadata[1], "date_range"), "begin")
                    ELSE None,
                 end |->
                    IF report_metadata # None
                    THEN get_text_or_none(find(report_metadata[1], "date_range"), "end")
                    ELSE None]],
         policy_published |->
            [domain |-> get_text_or_none(policy_published, "domain"),
             adkim |-> get_text_or_none(policy_published, "adkim"),
             aspf |-> get_text_or_none(policy_published, "aspf"),
             p |-> get_text_or_none(policy_published, "p"),
             sp |-> get_text_or_none(policy_published, "sp"),
             pct |-> get_text_or_none(policy_published, "pct")],
         records |-> [k \in DOMAIN records |-> parse_record(records[k])]]

\* The text fields of a parsed record and of the report-level dictionaries.
RecordTexts(r) ==
    {r.source_ip, r.count, r.policy_evaluated.disposition, r.policy_evaluated.dkim,
     r.policy_evaluated.spf, r.identifiers.header_from, r.auth_results.dkim,
     r.auth_results.spf}

ReportTexts(d) ==
    {d.report_metadata.org_name, d.report_metadata.email, d.report_metadata.report_id,
     d.report_metadata.date_range.begin, d.report_metadata.date_range.end,
     d.policy_published.domain, d.policy_published.adkim, d.policy_published.aspf,
     d.policy_published.p, d.policy_published.sp, d.policy_published.pct}
    \cup UNION {RecordTexts(d.records[k]) : k \in DOMAIN d.records}

\* A file's bytes as ElementTree sees them: not well-formed, or a tree.
XmlData(wf, root) == [t |-> "xml", wf |-> wf, root |-> root]

\* parse_dmarc_xml: ET.parse raises ParseError on text that is not
\* well-formed XML; the root's tag is never looked at.
parse_dmarc_xml(data) ==
    IF data.t # "xml" \/ ~data.wf
    THEN [kind |-> "raise", error |-> "ParseError"]
    ELSE LET parsed_data == parsed_data_of(data.root)
         IN  IF AttributeError \in ReportTexts(parsed_data)
             THEN [kind |-> "raise", error |-> "AttributeError"]
             ELSE [kind |-> "return", report |-> parsed_data]

(***************************************************************************)
(* The tables that stand for what pandas reads in a cell.                  *)
(***************************************************************************)
\* Source-IP texts, listed in ascending string order: the index of a text
\* is its rank in the sorted group keys of groupby.
IpText ==
    <<"192.0.2.101", "192.0.2.102", "192.0.2.103", "192.0.2.104", "192.0.2.105",
      "192.0.2.106", "192.0.2.107", "192.0.2.108", "192.0.2.109", "192.0.2.110",
      "192.0.2.111", "192.0.2.112", "192.0.2.113", "192.0.2.114", "192.0.2.115",
      "192.0.2.116", "192.0.2.117", "192.0.2.118", "192.0.2.119", "192.0.2.120",
      "192.0.2.121", "192.0.2.122", "192.0.2.123", "192.0.2.124">>

IpRank(s) == CHOOSE i \in DOMAIN IpText : IpText[i] = s

\* Cell texts that read_csv infers as integers: the text Numeral[i] reads as
\* the number NumeralValue[i].  Every other text makes a column of objects.
Numeral == <<"0", "1", "2", "3", "5", "10">>
NumeralValue == <<0, 1, 2, 3, 5, 10>>

IsNumeric(s) == \E i \in DOMAIN Numeral : Numeral[i] = s
ValueOf(s) == NumeralValue[CHOOSE i \in DOMAIN Numeral : Numeral[i] = s]

(***************************************************************************)
(* Generated XML documents.                                                *)
(***************************************************************************)
RowVariants == {"absent", "bare", "full"}
AuthVariants == {"absent", "empty", "dkim", "spf", "both"}
MetaVariants == {"absent", "norange", "full"}

RowElems(v) ==
    IF v = "absent" THEN <<>>
    ELSE IF v = "bare"
    THEN <<Elem("row", None, <<Leaf("source_ip", IpText[2]), Leaf("count", "2")>>)>>
    ELSE <<Elem("row", None,
            <<Leaf("source_ip", IpText[1]), Leaf("count", "1"),
              Elem("policy_evaluated", None,
                <<Leaf("disposition", "none"), Leaf("dkim", "pass"),
                  Leaf("spf", "fail")>>)>>)>>

AuthElems(v) ==
    IF v = "absent" THEN <<>>
    ELSE <<Elem("auth_results", None,
            (IF v \in {"dkim", "both"}
             THEN <<Elem("dkim", None,
                     <<Leaf("domain", "dkim.example.org"), Leaf("result", "pass")>>)>>
             ELSE <<>>)
            \o
            (IF v \in {"spf", "both"}
             THEN <<Elem("spf", None,
                     <<Leaf("domain", "spf.example.org"), Leaf("result", "fail")>>)>>
             ELSE <<>>))>>

RecordElem(rowV, idV, authV) ==
    Elem("record", None,
        RowElems(rowV)
        \o (IF idV
            THEN <<Elem("identifiers", None, <<Leaf("header_from", "example.org")>>)>>
            ELSE <<>>)
        \o AuthElems(authV))

RecordElems ==
    {RecordElem(r, i, a) : r \in RowVariants, i \in BOOLEAN, a \in AuthVariants}

MetaElems(v) ==
    IF v = "absent" THEN <<>>
    ELSE <<Elem("report_metadata", None,
            <<Leaf("org_name", "google.com"), Elem("email", None, <<>>),
              Leaf("report_id", "r-4711")>>
            \o (IF v = "full"
                THEN <<Elem("date_range", None,
                        <<Leaf("begin", "1700000000"), Leaf("end", "1700086400")>>)>>
                ELSE <<>>))>>

PolicyElems(present) ==
    IF present
    THEN <<Elem("policy_published", None,
            <<Leaf("domain", "example.org"), Leaf("adkim", "r"), Leaf("aspf", "s"),
              Leaf("p", "reject"), Leaf("pct", "100")>>)>>
    ELSE <<>>

\* A well-formed document: the root's children are a version element, then
\* the optional blocks, then the records.
Document(rootTag, metaV, policyV, records) ==
    XmlData(TRUE,
        Elem(rootTag, None,
            <<Leaf("version", "1.0")>> \o MetaElems(metaV) \o PolicyElems(policyV)
            \o records))

Malformed == XmlData(FALSE, Elem("", None, <<>>))

RootTags == {"feedback", "html"}

\* Every combination of the report-level blocks with at most one record of
\* every shape, under either root; and every sequence of records of every
\* shape with all or none of the report-level blocks.
Documents ==
    {Malformed}
    \cup {Document(t, m, p, rs) :
            t \in RootTags, m \in MetaVariants, p \in BOOLEAN,
            rs \in SeqsUpTo(RecordElems, 1)}
    \cup {Document("feedback", IF p THEN "full" ELSE "absent", p, rs) :
            p \in BOOLEAN, rs \in SeqsUpTo(RecordElems, MaxRecords)}

(***************************************************************************)
(* The directory tree.  A path is the sequence of names below the          *)
(* directory the script works in (directory and output_dir are the same    *)
(* directory, lines 217-218).                                              *)
(***************************************************************************)
File(path, data) == [path |-> path, kind |-> "file", data |-> data]
Dir(path) == [path |-> path, kind |-> "dir", data |-> [t |-> "dir"]]

OtherData == [t |-> "other"]
ZipData(ok, members) == [t |-> "zip", ok |-> ok, members |-> members]
GzData(ok, inner) == [t |-> "gz", ok |-> ok, inner |-> inner]
CsvData(header, rows) == [t |-> "csv", header |-> header, rows |-> rows]

basename(path) == path[Len(path)]
dirname(path) == SubSeq(path, 1, Len(path) - 1)

IsPrefix(p, q) == Len(p) <= Len(q) /\ SubSeq(q, 1, Len(p)) = p

FilesOf(tree) == {f \in tree : f.kind = "file"}

DataAt(tree, path) == (CHOOSE f \in tree : f.path = path).data

\* The directories a file at path lies in, below the working directory.
Parents(path) == {Dir(SubSeq(path, 1, n)) : n \in 1..(Len(path) - 1)}

\* open(path, 'wb') followed by writing data: the file is created or
\* replaced; extractall also creates the directories on the way.
WriteFile(tree, path, data) ==
    {f \in tree : f.path # path} \cup Parents(path) \cup {File(path, data)}

\* The orders in which os.walk (top-down) can yield the paths in P: the
\* files of a directory come before those of its subdirectories, and every
\* subtree is walked in one piece; the order inside a directory is the
\* operating system's.
WalkOrders(P) ==
    LET n == Cardinality(P)
    IN  {s \in [1..n -> P] :
            /\ \A i, j \in 1..n : i # j => s[i] # s[j]
            /\ \A i, j \in 1..n :
                i < j => ~(/\ IsPrefix(dirname(s[j]), dirname(s[i]))
                           /\ dirname(s[j]) # dirname(s[i]))
            /\ \A i, j, k \in 1..n :
                (i < j /\ j < k) =>
                    \A m \in 0..Len(dirname(s[i])) :
                        LET D == SubSeq(s[i], 1, m)
                        IN  IsPrefix(D, dirname(s[k])) => IsPrefix(D, dirname(s[j]))}

WalkFiles(tree, suffix) ==
    WalkOrders({f.path : f \in {g \in FilesOf(tree) : endswith(basename(g.path), suffix)}})

(***************************************************************************)
(* save_reports_to_csv.  A row is a Python dict, modelled as the sequence  *)
(* of its <<key, value>> pairs in insertion order.                         *)
(***************************************************************************)
\* The dict of lines 155-175 for one record of one report.
flat_row(report, record) ==
    LET metadata == report.report_metadata
        policy == report.policy_published
    IN  << <<"org_name", metadata.org_name>>,
           <<"email", metadata.email>>,
           <<"report_id", metadata.report_id>>,
           <<"date_range_begin", metadata.date_range.begin>>,
           <<"date_range_end", metadata.date_range.end>>,
           <<"domain", policy.domain>>,
           <<"adkim", policy.adkim>>,
           <<"aspf", policy.aspf>>,
           <<"policy_p", policy.p>>,
           <<"policy_sp", policy.sp>>,
           <<"policy_pct", policy.pct>>,
           <<"source_ip", record.source_ip>>,
           <<"count", record.count>>,
           <<"disposition", record.policy_evaluated.disposition>>,
           <<"dkim", record.policy_evaluated.dkim>>,
           <<"spf", record.policy_evaluated.spf>>,
           <<"header_from", record.identifiers.header_from>>,
           <<"auth_results_dkim", record.auth_results.dkim>>,
           <<"auth_results_spf", record.auth_results.spf>> >>

\* The loops with metadata and policy read once, from the first report,
\* instead of inside the loop over reports.
RECURSIVE flat_rows_stale(_, _)
flat_rows_stale(reports, n) ==
    IF n = 0 THEN <<>>
    ELSE flat_rows_stale(reports, n - 1)
         \o [k \in DOMAIN reports[n].records |->
                flat_row(reports[1], reports[n].records[k])]

\* rows after the two loops of lines 151-176 have handled reports[1..n].
RECURSIVE flat_rows(_, _)
flat_rows(reports, n) ==
    IF n = 0 THEN <<>>
    ELSE flat_rows(reports, n - 1)
         \o [k \in DOMAIN reports[n].records |->
                flat_row(reports[n], reports[n].records[k])]

\* pd.DataFrame(rows) for a list of dicts with the same keys: the columns are
\* the keys of the dicts in insertion order; an empty list gives a frame
\* with no columns at all.
DataFrame(rows) ==
    [columns |-> IF rows = <<>> THEN <<>>
                 ELSE [i \in DOMAIN rows[1] |-> rows[1][i][1]],
     values |-> [k \in DOMAIN rows |-> [i \in DOMAIN rows[k] |-> rows[k][i][2]]]]

\* df.to_csv(csv_file, index=False): the column names, then one line per
\* row; None is written as an empty cell, a text as it is.
to_csv(df) ==
    CsvData(df.columns,
            [k \in DOMAIN df.values |->
                [i \in DOMAIN df.values[k] |->
                    IF df.values[k][i] = None THEN "" ELSE df.values[k][i][1]]])

save_reports_to_csv(reports) == to_csv(DataFrame(flat_rows(reports, Len(reports))))

(***************************************************************************)
(* read_csv_and_display_chart.                                             *)
(***************************************************************************)
TopN == 20

ColumnIndex(header, name) == CHOOSE i \in DOMAIN header : header[i] = name

\* read_csv's dtype of a column: an empty cell is NaN; the column is
\* numeric when every other cell reads as a number, else it holds objects.
NumericColumn(rows, c) ==
    \A k \in DOMAIN rows : rows[k][c] = "" \/ IsNumeric(rows[k][c])

\* The sum of a numeric count column over the first n rows whose source_ip
\* is key; NaN cells are skipped.
RECURSIVE group_sum(_, _, _, _, _)
group_sum(rows, ipc, cc, key, n) ==
    IF n = 0 THEN 0
    ELSE group_sum(rows, ipc, cc, key, n - 1)
         + (IF rows[n][ipc] = key /\ rows[n][cc] # "" THEN ValueOf(rows[n][cc]) ELSE 0)

\* df.groupby('source_ip')['count'].sum(): rows with a NaN key are dropped
\* and the groups come sorted by key.
groupby_sum(rows, ipc, cc) ==
    LET keys == {rows[k][ipc] : k \in DOMAIN rows} \ {""}
        sorted == [i \in 1..Cardinality(keys) |->
                     CHOOSE key \in keys :
                        Cardinality({o \in keys : IpRank(o) < IpRank(key)}) = i - 1]
    IN  [i \in DOMAIN sorted |->
            [source_ip |-> sorted[i],
             count |-> group_sum(rows, ipc, cc, sorted[i], Len(rows))]]

\* One step of a stable descending sort: x goes behind every element that
\* is not smaller.
insert_desc(sorted, x) ==
    LET ahead == {i \in DOMAIN sorted : sorted[i].count >= x.count}
        at == IF ahead = {} THEN 0 ELSE CHOOSE m \in ahead : \A i \in ahead : i <= m
    IN  SubSeq(sorted, 1, at) \o <<x>> \o SubSeq(sorted, at + 1, Len(sorted))

\* The same step with keep='last': x goes ahead of its equals.
insert_desc_keep_last(sorted, x) ==
    LET ahead == {i \in DOMAIN sorted : sorted[i].count > x.count}
        at == IF ahead = {} THEN 0 ELSE CHOOSE m \in ahead : \A i \in ahead : i <= m
    IN  SubSeq(sorted, 1, at) \o <<x>> \o SubSeq(sorted, at + 1, Len(sorted))

RECURSIVE sort_desc(_, _)
sort_desc(series, n) ==
    IF n = 0 THEN <<>> ELSE insert_desc(sort_desc(series, n - 1), series[n])

RECURSIVE sort_desc_keep_last(_, _)
sort_desc_keep_last(series, n) ==
    IF n = 0 THEN <<>>
    ELSE insert_desc_keep_last(sort_desc_keep_last(series, n - 1), series[n])

\* Series.nlargest(n) with keep='last'.
nlargest_keep_last(series, n) ==
    LET sorted == sort_desc_keep_last(series, Len(series))
    IN  SubSeq(sorted, 1, IF Len(sorted) < n THEN Len(sorted) ELSE n)

\* Series.nlargest(n), keep='first': the n largest values in descending
\* order, equal values in the order of the series.
nlargest(series, n) ==
    LET sorted == sort_desc(series, Len(series))
    IN  SubSeq(sorted, 1, IF Len(sorted) < n THEN Len(sorted) ELSE n)

NoChart == [kind |-> "none"]
ChartRaise(e) == [kind |-> "raise", error |-> e]
ChartShown(bars) == [kind |-> "shown", ip_counts |-> bars]
ChartFailed(bars, e) == [kind |-> "raise", error |-> e, ip_counts |-> bars]

\* The outcomes of read_csv_and_display_chart on the file written by
\* save_reports_to_csv.  read_csv raises on a file without columns; nlargest
\* raises on a column of objects; drawing needs a display, and what pandas
\* does with a series without any bar depends on its version.
read_csv_and_display_chart(data, display) ==
    IF data.header = <<>> THEN {ChartRaise("EmptyDataError")}
    ELSE IF ~(\E i \in DOMAIN data.header : data.header[i] = "source_ip")
         THEN {ChartRaise("KeyError")}
    ELSE LET ipc == ColumnIndex(data.header, "source_ip")
             cc == ColumnIndex(data.header, "count")
         IN  IF ~NumericColumn(data.rows, cc) THEN {ChartRaise("TypeError")}
             ELSE LET ip_counts == nlargest(groupby_sum(data.rows, ipc, cc), TopN)
                  IN  IF ~display THEN {ChartFailed(ip_counts, "ChartRenderError")}
                      ELSE IF ip_counts = <<>>
                           THEN {ChartShown(ip_counts), ChartFailed(ip_counts, "IndexError")}
                           ELSE {ChartShown(ip_counts)}

(***************************************************************************)
(* cleanup_extracted_files.                                                *)
(***************************************************************************)
\* The cleanup that lists only output_dir itself (os.listdir for os.walk).
cleanup_top_level_only(tree) ==
    {f \in tree : ~(f.kind = "file" /\ Len(f.path) = 1 /\ endswith(basename(f.path), DotXml))}

cleanup_extracted_files(tree) ==
    {f \in tree : ~(f.kind = "file" /\ endswith(basename(f.path), DotXml))}

(***************************************************************************)
(* The run (lines 221-227) as a state machine.                             *)
(***************************************************************************)
\* 'dmarc_reports' + currentdate + '.csv' in the working directory; the
\* date is fixed for the run (lines 213-219).
CsvPath == << <<"d", "m", "a", "r", "c", ".", "c", "s", "v">> >>

EmptyData == [t |-> "empty"]

\* An exception leaving the try block without the finally clause: the
\* script ends at once.
raise_without_finally(e) ==
    /\ pc' = "failed"
    /\ error' = Some(e)

\* An exception leaving the try block of line 221: control goes to the
\* finally clause with the exception in flight.
raise(e) ==
    /\ pc' = "finally"
    /\ error' = Some(e)

\* Lines 115-124: one walk of the directory collects the archives.
LocateArchives ==
    /\ pc = "locate"
    /\ \E zs \in WalkFiles(fs, DotZip) :
       \E gs \in WalkOrders({f.path : f \in {g \in FilesOf(fs) :
                                /\ ~endswith(basename(g.path), DotZip)
                                /\ endswith(basename(g.path), DotGz)}}) :
            /\ zip_files' = zs
            /\ gz_files' = gs
    /\ pc' = "unzip"
    /\ UNCHANGED <<fs, xml_files, all_reports, chart, error, cleanups, env>>

\* zip_ref.extractall(output_dir): every member is written below output_dir
\* under its own relative path.
extractall(tree, members) ==
    {f \in tree : \A m \in members : m.path # f.path}
    \cup UNION {Parents(m.path) : m \in members}
    \cup {File(m.path, m.data) : m \in members}

\* One iteration of the loop of decompress_zip_files (lines 17-19).
ExtractZip ==
    /\ pc = "unzip"
    /\ zip_files # <<>>
    /\ LET data == DataAt(fs, Head(zip_files))
       IN  IF data.t = "zip" /\ data.ok
           THEN /\ fs' = extractall(fs, data.members)
                /\ zip_files' = Tail(zip_files)
                /\ UNCHANGED <<pc, error>>
           ELSE /\ raise("BadZipFile")
                /\ UNCHANGED <<fs, zip_files>>
    /\ UNCHANGED <<gz_files, xml_files, all_reports, chart, cleanups, env>>

\* decompress_zip_files returns (line 127 to line 130).
ZipFilesDone ==
    /\ pc = "unzip"
    /\ zip_files = <<>>
    /\ pc' = "gunzip"
    /\ UNCHANGED <<fs, zip_files, gz_files, xml_files, all_reports, chart, error,
                   cleanups, env>>

\* os.path.basename(gz_file).replace('.gz', '') (line 30).
gz_output_name(gz_file) == replace_with_empty(basename(gz_file), DotGz)

\* One iteration of the loop of decompress_gz_files (lines 28-32).  The
\* output file is opened, and so created or emptied, before the first byte
\* of the archive is read; a name that is empty, "." or ".." or that of a
\* directory cannot be opened for writing.
DecompressGz ==
    /\ pc = "gunzip"
    /\ gz_files # <<>>
    /\ LET gz_file == Head(gz_files)
           data == DataAt(fs, gz_file)
           output_path == <<gz_output_name(gz_file)>>
       IN  IF \/ gz_output_name(gz_file) \in {<<>>, <<".">>, <<".", ".">>}
              \/ Dir(output_path) \in fs
           THEN /\ raise("IsADirectoryError")
                /\ UNCHANGED <<fs, gz_files>>
           ELSE IF data.t = "gz" /\ data.ok
           THEN /\ fs' = WriteFile(fs, output_path, data.inner)
                /\ gz_files' = Tail(gz_files)
                /\ UNCHANGED <<pc, error>>
           ELSE /\ fs' = WriteFile(fs, output_path, EmptyData)
                /\ raise("BadGzipFile")
                /\ UNCHANGED gz_files
    /\ UNCHANGED <<zip_files, xml_files, all_reports, chart, cleanups, env>>

\* decompress_gz_files returns; the walk of line 134 starts.  The tree does
\* not change while it is walked, so its order is fixed here.
GzFilesDone ==
    /\ pc = "gunzip"
    /\ gz_files = <<>>
    /\ \E order \in WalkFiles(fs, DotXml) : xml_files' = order
    /\ pc' = "parse"
    /\ UNCHANGED <<fs, zip_files, gz_files, all_reports, chart, error, cleanups, env>>

\* The loop body with the parse error caught and the file skipped.
ParseXmlFileSkipping ==
    /\ pc = "parse"
    /\ xml_files # <<>>
    /\ LET r == parse_dmarc_xml(DataAt(fs, Head(xml_files)))
       IN  /\ all_reports' = IF r.kind = "raise" THEN all_reports
                             ELSE Append(all_reports, r.report)
           /\ xml_files' = Tail(xml_files)
           /\ error' = IF r.kind = "raise" THEN Some(r.error) ELSE error
           /\ UNCHANGED pc
    /\ UNCHANGED <<fs, zip_files, gz_files, chart, cleanups, env>>

\* One iteration of the loop of lines 134-139.
ParseXmlFile ==
    /\ pc = "parse"
    /\ xml_files # <<>>
    /\ LET r == parse_dmarc_xml(DataAt(fs, Head(xml_files)))
       IN  IF r.kind = "raise"
           THEN /\ raise(r.error)
                /\ UNCHANGED <<xml_files, all_reports>>
           ELSE /\ all_reports' = Append(all_reports, r.report)
                /\ xml_files' = Tail(xml_files)
                /\ UNCHANGED <<pc, error>>
    /\ UNCHANGED <<fs, zip_files, gz_files, chart, cleanups, env>>

\* return all_reports (line 141).
ReportsReturned ==
    /\ pc = "parse"
    /\ xml_files = <<>>
    /\ pc' = "save"
    /\ UNCHANGED <<fs, zip_files, gz_files, xml_files, all_reports, chart, error,
                   cleanups, env>>

\* save_reports_to_csv(reports, csv_file) (line 223).
SaveReportsToCsv ==
    /\ pc = "save"
    /\ IF env.disk
       THEN /\ fs' = WriteFile(fs, CsvPath, save_reports_to_csv(all_reports))
            /\ pc' = "chart"
            /\ UNCHANGED error
       ELSE /\ raise("OSError")
            /\ UNCHANGED fs
    /\ UNCHANGED <<zip_files, gz_files, xml_files, all_reports, chart, cleanups, env>>

\* read_csv_and_display_chart(csv_file) (line 224).
ReadCsvAndDisplayChart ==
    /\ pc = "chart"
    /\ \E outcome \in read_csv_and_display_chart(DataAt(fs, CsvPath), env.display) :
        /\ chart' = outcome
        /\ IF outcome.kind = "raise"
           THEN raise(outcome.error)
           ELSE pc' = "finally" /\ UNCHANGED error
    /\ UNCHANGED <<fs, zip_files, gz_files, xml_files, all_reports, cleanups, env>>

\* The finally clause (lines 226-227); afterwards the exception in flight,
\* if any, ends the script.
CleanupExtractedFiles ==
    /\ pc = "finally"
    /\ fs' = cleanup_extracted_files(fs)
    /\ cleanups' = cleanups + 1
    /\ pc' = IF error = None THEN "done" ELSE "failed"
    /\ UNCHANGED <<zip_files, gz_files, xml_files, all_reports, chart, error, env>>

(***************************************************************************)
(* The whole run, from a directory holding archives and other files.       *)
(***************************************************************************)
N_a_zip == <<"a", ".", "z", "i", "p">>
N_in == <<"i", "n">>
N_b_xml_gz == <<"b", ".", "x", "m", "l", ".", "g", "z">>
N_r_xml == <<"r", ".", "x", "m", "l">>
N_sub == <<"s", "u", "b">>
N_s_xml == <<"s", ".", "x", "m", "l">>
N_note_txt == <<"n", "o", "t", "e", ".", "t", "x", "t">>
N_d_xml == <<"d", ".", "x", "m", "l">>
N_keep_txt == <<"k", "e", "e", "p", ".", "t", "x", "t">>
N_old_xml == <<"o", "l", "d", ".", "x", "m", "l">>
N_old_xml_bak == <<"o", "l", "d", ".", "x", "m", "l", ".", "b", "a", "k">>

OneRecordDoc == Document("feedback", "full", TRUE, <<RecordElem("full", TRUE, "both")>>)
TwoRecordDoc ==
    Document("feedback", "norange", TRUE,
             <<RecordElem("absent", FALSE, "absent"), RecordElem("bare", TRUE, "dkim")>>)
NoRecordDoc == Document("feedback", "full", TRUE, <<>>)

Member(path, data) == [path |-> path, data |-> data]

ZipChoices ==
    {{},
     {File(<<N_a_zip>>,
           ZipData(TRUE, {Member(<<N_r_xml>>, OneRecordDoc),
                          Member(<<N_sub, N_s_xml>>, NoRecordDoc),
                          Member(<<N_note_txt>>, OtherData)}))},
     {File(<<N_a_zip>>,
           ZipData(TRUE, {Member(<<N_r_xml>>, Malformed),
                          Member(<<N_sub, N_s_xml>>, OneRecordDoc)}))},
     {File(<<N_a_zip>>, ZipData(FALSE, {}))}}

GzChoices ==
    {{}}
    \cup {{Dir(<<N_in>>), File(<<N_in, N_b_xml_gz>>, d)} :
            d \in {GzData(TRUE, TwoRecordDoc), GzData(TRUE, Malformed),
                   GzData(FALSE, EmptyData)}}

KeptChoices ==
    {{},
     {Dir(<<N_d_xml>>), File(<<N_d_xml, N_keep_txt>>, OtherData),
      File(<<N_d_xml, N_old_xml>>, OneRecordDoc), File(<<N_old_xml_bak>>, OtherData)}}

Environments == [disk : BOOLEAN, display : BOOLEAN]

Init ==
    /\ pc = "locate"
    /\ \E z \in ZipChoices, g \in GzChoices, k \in KeptChoices : fs = z \cup g \cup k
    /\ zip_files = <<>>
    /\ gz_files = <<>>
    /\ xml_files = <<>>
    /\ all_reports = <<>>
    /\ chart = NoChart
    /\ error = None
    /\ cleanups = 0
    /\ env \in Environments

Next ==
    \/ LocateArchives
    \/ ExtractZip
    \/ ZipFilesDone
    \/ DecompressGz
    \/ GzFilesDone
    \/ ParseXmlFile
    \/ ReportsReturned
    \/ SaveReportsToCsv
    \/ ReadCsvAndDisplayChart
    \/ CleanupExtractedFiles

Spec == Init /\ [][Next]_vars

(***************************************************************************)
(* parse_dmarc_xml on every generated document.                            *)
(***************************************************************************)
InitParse ==
    /\ pc = "parse"
    /\ \E d \in Documents : fs = {File(<<N_r_xml>>, d)}
    /\ zip_files = <<>>
    /\ gz_files = <<>>
    /\ xml_files = << <<N_r_xml>> >>
    /\ all_reports = <<>>
    /\ chart = NoChart
    /\ error = None
    /\ cleanups = 0
    /\ env = [disk |-> TRUE, display |-> TRUE]

NextParse == ParseXmlFile

SpecParse == InitParse /\ [][NextParse]_vars

(***************************************************************************)
(* save_reports_to_csv and read_csv_and_display_chart on generated lists   *)
(* of reports.                                                             *)
(***************************************************************************)
\* Reports as the parser returns them, with and without metadata, with
\* full and with empty records.
SmallPool ==
    {parsed_data_of(Document("feedback", m, TRUE, rs).root) :
        m \in {"absent", "full"},
        rs \in SeqsUpTo({RecordElem("full", TRUE, "both"),
                         RecordElem("absent", FALSE, "absent")}, MaxRecords)}

\* The record parsed from a record element whose row holds these optional
\* source_ip and count texts.
RowRecord(ip, count) ==
    parse_record(
        Elem("record", None,
            <<Elem("row", None,
                (IF ip = None THEN <<>> ELSE <<Leaf("source_ip", ip[1])>>)
                \o (IF count = None THEN <<>> ELSE <<Leaf("count", count[1])>>))>>))

ReportOfRecords(records) ==
    [parsed_data_of(NoRecordDoc.root) EXCEPT !.records = records]

RowRecords ==
    {RowRecord(i, c) : i \in {None, Some(IpText[1]), Some(IpText[2])},
                       c \in {None, Some("1"), Some("2"), Some("x")}}

\* K distinct source IPs, in ascending or descending order, each counted
\* once except those at the positions in heavy, which are counted twice.
WideRecords(K, descending, heavy) ==
    [i \in 1..K |->
        RowRecord(Some(IpText[IF descending THEN K + 1 - i ELSE i]),
                  Some(IF i \in heavy THEN "2" ELSE "1"))]

ScenarioRecords ==
    <<RowRecord(Some(IpText[1]), Some("1")), RowRecord(Some(IpText[1]), Some("2")),
      RowRecord(Some(IpText[2]), Some("5")), RowRecord(Some(IpText[3]), Some("10"))>>

ReportLists ==
    SeqsUpTo(SmallPool, MaxReports)
    \cup {<<ReportOfRecords(rs)>> : rs \in SeqsUpTo(RowRecords, MaxRows)}
    \cup {<<ReportOfRecords(WideRecords(K, d, {a, b}))>> :
            K \in 1..MaxIps, d \in BOOLEAN, a \in 1..MaxIps, b \in 1..MaxIps}
    \cup {<<ReportOfRecords(WideRecords(K, d, {}))>> : K \in 1..MaxIps, d \in BOOLEAN}
    \cup {<<ReportOfRecords(ScenarioRecords)>>}

InitCsv ==
    /\ pc = "save"
    /\ fs = {}
    /\ zip_files = <<>>
    /\ gz_files = <<>>
    /\ xml_files = <<>>
    /\ all_reports \in ReportLists
    /\ chart = NoChart
    /\ error = None
    /\ cleanups = 0
    /\ env = [disk |-> TRUE, display |-> TRUE]

NextCsv ==
    \/ SaveReportsToCsv
    \/ ReadCsvAndDisplayChart

SpecCsv == InitCsv /\ [][NextCsv]_vars

(***************************************************************************)
(* decompress_gz_files on every generated archive name.                    *)
(***************************************************************************)
NameChars == {"a", ".", "g", "z"}

GzNames == {stem \o DotGz : stem \in SeqsUpTo(NameChars, MaxStem)}

InitGz ==
    /\ pc = "gunzip"
    /\ \E name \in GzNames :
        /\ fs = {Dir(<<N_in>>), File(<<N_in, name>>, GzData(TRUE, NoRecordDoc))}
        /\ gz_files = << <<N_in, name>> >>
    /\ zip_files = <<>>
    /\ xml_files = <<>>
    /\ all_reports = <<>>
    /\ chart = NoChart
    /\ error = None
    /\ cleanups = 0
    /\ env = [disk |-> TRUE, display |-> TRUE]

NextGz == DecompressGz

SpecGz == InitGz /\ [][NextGz]_vars

(***************************************************************************)
(* Properties of parse_dmarc_xml, checked under SpecParse.                 *)
(***************************************************************************)
TheDocument == DataAt(fs, <<N_r_xml>>)

\* The parse of the one file has been attempted.
ParseAttempted == xml_files = <<>> \/ error # None

\* The text found by descending from element along the tags of path, taking
\* the first child of each tag; None as soon as a node is absent.
RECURSIVE PathText(_, _)
PathText(element, path) ==
    IF path = <<>> THEN element.text
    ELSE LET hits == {i \in DOMAIN element.kids : element.kids[i].tag = Head(path)}
         IN  IF hits = {} THEN None
             ELSE PathText(element.kids[CHOOSE i \in hits : \A j \in hits : i <= j],
                           Tail(path))

HasChild(element, tag) == \E i \in DOMAIN element.kids : element.kids[i].tag = tag

\* The position among root's children of its k-th record element.
RecordPosition(root, k) ==
    CHOOSE i \in DOMAIN root.kids :
        /\ root.kids[i].tag = "record"
        /\ Cardinality({j \in 1..i : root.kids[j].tag = "record"}) = k

RecordMatches(e, r) ==
    /\ r.source_ip = PathText(e, <<"row", "source_ip">>)
    /\ r.count = PathText(e, <<"row", "count">>)
    /\ r.policy_evaluated.disposition = PathText(e, <<"row", "policy_evaluated", "disposition">>)
    /\ r.policy_evaluated.dkim = PathText(e, <<"row", "policy_evaluated", "dkim">>)
    /\ r.policy_evaluated.spf = PathText(e, <<"row", "policy_evaluated", "spf">>)
    /\ r.identifiers.header_from = PathText(e, <<"identifiers", "header_from">>)
    /\ r.auth_results.dkim = PathText(e, <<"auth_results", "dkim", "domain">>)
    /\ r.auth_results.spf = PathText(e, <<"auth_results", "spf", "domain">>)
    /\ ~HasChild(e, "row") =>
            /\ r.source_ip = None
            /\ r.count = None
            /\ r.policy_evaluated = [disposition |-> None, dkim |-> None, spf |-> None]
    /\ ~HasChild(e, "identifiers") => r.identifiers.header_from = None
    /\ ~HasChild(e, "auth_results") => r.auth_results = [dkim |-> None, spf |-> None]

ReportMatches(root, d) ==
    /\ d.report_metadata.org_name = PathText(root, <<"report_metadata", "org_name">>)
    /\ d.report_metadata.email = PathText(root, <<"report_metadata", "email">>)
    /\ d.report_metadata.report_id = PathText(root, <<"report_metadata", "report_id">>)
    /\ d.report_metadata.date_range.begin
            = PathText(root, <<"report_metadata", "date_range", "begin">>)
    /\ d.report_metadata.date_range.end
            = PathText(root, <<"report_metadata", "date_range", "end">>)
    /\ d.policy_published.domain = PathText(root, <<"policy_published", "domain">>)
    /\ d.policy_published.adkim = PathText(root, <<"policy_published", "adkim">>)
    /\ d.policy_published.aspf = PathText(root, <<"policy_published", "aspf">>)
    /\ d.policy_published.p = PathText(root, <<"policy_published", "p">>)
    /\ d.policy_published.sp = PathText(root, <<"policy_published", "sp">>)
    /\ d.policy_published.pct = PathText(root, <<"policy_published", "pct">>)
    /\ ~HasChild(root, "report_metadata") =>
            d.report_metadata = [org_name |-> None, email |-> None, report_id |-> None,
                                 date_range |-> [begin |-> None, end |-> None]]
    /\ Len(d.records) = Cardinality({i \in DOMAIN root.kids : root.kids[i].tag = "record"})
    /\ \A k \in DOMAIN d.records :
            RecordMatches(root.kids[RecordPosition(root, k)], d.records[k])

\* C1: parsing a well-formed document never raises, whichever optional nodes
\* are absent; every field below an absent node is None, and the report has
\* one record per record element, in document order.
C1_ParseToleratesAbsentNodes ==
    TheDocument.wf =>
        /\ error = None
        /\ xml_files = <<>> =>
            /\ Len(all_reports) = 1
            /\ ReportMatches(TheDocument.root, all_reports[1])

\* A document without report_metadata whose first record has no row and
\* whose second record has one has been parsed.
C1_Witness ==
    /\ xml_files = <<>>
    /\ error = None
    /\ Len(all_reports) = 1
    /\ ~HasChild(TheDocument.root, "report_metadata")
    /\ Len(all_reports[1].records) = 2
    /\ all_reports[1].records[1].source_ip = None
    /\ all_reports[1].records[2].source_ip # None
    /\ all_reports[1].records[2].auth_results = [dkim |-> None, spf |-> Some("spf.example.org")]

\* C10: parse_dmarc_xml fails with a parse error exactly when the file is
\* not well-formed XML or its root is not the DMARC report element
\* (feedback).
C10_ParseErrorIffStructurallyInvalid ==
    ParseAttempted =>
        ((error = Some("ParseError"))
            <=> (~TheDocument.wf \/ TheDocument.root.tag # "feedback"))

(***************************************************************************)
(* Properties of save_reports_to_csv and read_csv_and_display_chart,       *)
(* checked under SpecCsv.                                                  *)
(***************************************************************************)
CsvWritten == \E f \in fs : f.path = CsvPath

TheCsv == DataAt(fs, CsvPath)

Columns ==
    <<"org_name", "email", "report_id", "date_range_begin", "date_range_end",
      "domain", "adkim", "aspf", "policy_p", "policy_sp", "policy_pct",
      "source_ip", "count", "disposition", "dkim", "spf", "header_from",
      "auth_results_dkim", "auth_results_spf">>

Cell(text) == IF text = None THEN "" ELSE text[1]

\* The cells the row of a record of a report must carry.
ExpectedCells(report, record) ==
    <<Cell(report.report_metadata.org_name),
      Cell(report.report_metadata.email),
      Cell(report.report_metadata.report_id),
      Cell(report.report_metadata.date_range.begin),
      Cell(report.report_metadata.date_range.end),
      Cell(report.policy_published.domain),
      Cell(report.policy_published.adkim),
      Cell(report.policy_published.aspf),
      Cell(report.policy_published.p),
      Cell(report.policy_published.sp),
      Cell(report.policy_published.pct),
      Cell(record.source_ip),
      Cell(record.count),
      Cell(record.policy_evaluated.disposition),
      Cell(record.policy_evaluated.dkim),
      Cell(record.policy_evaluated.spf),
      Cell(record.identifiers.header_from),
      Cell(record.auth_results.dkim),
      Cell(record.auth_results.spf)>>

\* The number of records in the first n reports.
RECURSIVE RecordsIn(_, _)
RecordsIn(reports, n) ==
    IF n = 0 THEN 0 ELSE RecordsIn(reports, n - 1) + Len(reports[n].records)

\* C2: the CSV has one data row per record, report after report and record
\* after record; each row carries its own report's metadata and policy and
\* its own record's fields; identical records give separate rows.
C2_OneRowPerRecordInOrder ==
    CsvWritten =>
        /\ Len(TheCsv.rows) = RecordsIn(all_reports, Len(all_reports))
        /\ \A i \in DOMAIN all_reports :
            \A k \in DOMAIN all_reports[i].records :
                TheCsv.rows[RecordsIn(all_reports, i - 1) + k]
                    = ExpectedCells(all_reports[i], all_reports[i].records[k])

\* Two reports with different metadata, the second with two identical
\* records, have been written as three rows.
C2_Witness ==
    /\ CsvWritten
    /\ Len(all_reports) = 2
    /\ all_reports[1].report_metadata # all_reports[2].report_metadata
    /\ Len(all_reports[1].records) = 1
    /\ Len(all_reports[2].records) = 2
    /\ all_reports[2].records[1] = all_reports[2].records[2]
    /\ Len(TheCsv.rows) = 3
    /\ TheCsv.rows[2] = TheCsv.rows[3]
    /\ TheCsv.rows[1] # TheCsv.rows[2]

\* C3: whatever reports are written, the CSV starts with the header of the
\* 19 column names in their fixed order.
C3_HeaderIsTheFixedSchema ==
    CsvWritten => TheCsv.header = Columns

\* The groups of the chart: the source_ip cells that are not empty.
Groups == {TheCsv.rows[k][12] : k \in DOMAIN TheCsv.rows} \ {""}

RECURSIVE SumOfRows(_)
SumOfRows(K) ==
    IF K = {} THEN 0
    ELSE LET k == CHOOSE x \in K : TRUE
         IN  (IF TheCsv.rows[k][13] = "" THEN 0 ELSE ValueOf(TheCsv.rows[k][13]))
             + SumOfRows(K \ {k})

GroupTotal(g) == SumOfRows({k \in DOMAIN TheCsv.rows : TheCsv.rows[k][12] = g})

FirstRowOf(g) == Min({k \in DOMAIN TheCsv.rows : TheCsv.rows[k][12] = g})

EncounteredFirst(g, h) == FirstRowOf(g) < FirstRowOf(h)

SortsFirst(g, h) == IpRank(g) < IpRank(h)

\* The bars are the TopN groups with the largest totals, in descending
\* order of total, equal totals ordered and cut off by TieBreak.
TopGroupsPlotted(bars, TieBreak(_, _)) ==
    LET Ahead(g, h) ==
            \/ GroupTotal(g) > GroupTotal(h)
            \/ GroupTotal(g) = GroupTotal(h) /\ TieBreak(g, h)
        plotted == {bars[i].source_ip : i \in DOMAIN bars}
    IN  /\ Len(bars) = IF Cardinality(Groups) < TopN THEN Cardinality(Groups) ELSE TopN
        /\ plotted \subseteq Groups
        /\ \A i \in DOMAIN bars : bars[i].count = GroupTotal(bars[i].source_ip)
        /\ \A i, j \in DOMAIN bars : i < j => Ahead(bars[i].source_ip, bars[j].source_ip)
        /\ \A g \in Groups \ plotted : \A i \in DOMAIN bars : Ahead(bars[i].source_ip, g)

C9_AggregationToleratesBadCounts ==
    (chart # NoChart /\ Groups # {}) => "ip_counts" \in DOMAIN chart

(***************************************************************************)
(* Properties of decompress_gz_files, checked under SpecGz.                *)
(***************************************************************************)
\* The one archive has been decompressed without an exception.
GzDecompressed == gz_files = <<>> /\ error = None

\* C8: once an archive is decompressed, its content is in the file of the
\* working directory named by the archive's basename without its last three
\* characters, the trailing .gz; nothing else is taken out of the name.
C8_OnlyTrailingGzRemoved ==
    GzDecompressed =>
        \A g \in {f \in FilesOf(fs) : f.data.t = "gz"} :
            LET name == basename(g.path)
                stem == SubSeq(name, 1, Len(name) - 3)
            IN  stem # <<>> => File(<<stem>>, g.data.inner) \in fs

(***************************************************************************)
(* Properties of the whole run, checked under Spec.                        *)
(***************************************************************************)
\* The script has ended: normally, or with the exception in flight.
RunEnded == pc \in {"done", "failed"}

\* C4: no run ends without cleanup_extracted_files having been executed,
\* whether the try block completed or raised.
C4_CleanupOnEveryExit ==
    /\ RunEnded => cleanups = 1
    /\ pc \in {"locate", "unzip", "gunzip", "parse", "save", "chart", "finally",
               "done", "failed"}

\* A run that failed in parsing has ended after its cleanup.
C4_Witness ==
    /\ pc = "failed"
    /\ error = Some("ParseError")
    /\ cleanups = 1

IsXmlFile(f) ==
    /\ f.kind = "file"
    /\ Len(basename(f.path)) >= 4
    /\ SubSeq(basename(f.path), Len(basename(f.path)) - 3, Len(basename(f.path)))
            = <<".", "x", "m", "l">>

\* C5: cleanup removes every file whose name ends in .xml, at any depth,
\* and leaves every other file, every directory and the CSV as they were.
C5_CleanupRemovesExactlyXmlFiles ==
    /\ [](cleanups > 0 => \A f \in fs : ~IsXmlFile(f))
    /\ [][pc = "finally" =>
            /\ fs' \subseteq fs
            /\ \A f \in fs : IsXmlFile(f) <=> f \notin fs']_vars

\* After a complete run that extracted sub/s.xml and parsed d.xml/old.xml,
\* the CSV, the other files and the directories are still there.
C5_Witness ==
    /\ pc = "done"
    /\ cleanups = 1
    /\ Len(all_reports) = 4
    /\ CsvWritten
    /\ {Dir(<<N_sub>>), Dir(<<N_d_xml>>), File(<<N_d_xml, N_keep_txt>>, OtherData),
        File(<<N_old_xml_bak>>, OtherData), File(<<N_note_txt>>, OtherData)} \subseteq fs
    /\ \E f \in fs : f.path = <<N_a_zip>>

ExtractionAndParseErrors == {"BadZipFile", "BadGzipFile", "IsADirectoryError", "ParseError"}

\* C6: an error raised by extraction or parsing is not caught: from then on
\* no further file is extracted or parsed, no CSV is written, no chart is
\* drawn, and the run ends with that error.
C6_ExtractionOrParseErrorAborts ==
    /\ [](error # None /\ error[1] \in ExtractionAndParseErrors =>
            /\ pc \in {"finally", "failed"}
            /\ ~CsvWritten
            /\ chart = NoChart)
    /\ [](pc = "done" => error = None)
    /\ [][error # None =>
            /\ error' = error
            /\ all_reports' = all_reports
            /\ xml_files' = xml_files
            /\ gz_files' = gz_files
            /\ zip_files' = zip_files]_vars

\* A run failed on a malformed file after another file had been parsed,
\* with a file still waiting.
C6_Witness ==
    /\ pc = "failed"
    /\ error = Some("ParseError")
    /\ Len(all_reports) >= 1
    /\ Len(xml_files) >= 2
    /\ ~CsvWritten

====
